---- MODULE Spec2Model ----
(***************************************************************************)
(* arxiv-tweets-summary: the translation cache (src/docker/deeplcache.py), *)
(* the part of main() that drives it (src/docker/main.py), and the         *)
(* attention-aggregation pipeline search_recent_tweets -> convert_to_dfs   *)
(* -> get_arxiv_stats (src/docker/main.py).                                *)
(*                                                                         *)
(* Three specifications share the module's variables:                      *)
(*   SpecCache  one DeepLCache object under any sequence of method calls   *)
(*   SpecMain   main(), lines 494-508: load, translate_arxiv, clear, save  *)
(*   Spec       summarize(): pages -> merged result -> tables -> stats     *)
(***************************************************************************)
EXTENDS Integers, Sequences, FiniteSets, TLC

\* ------------------------------------------------------------------ bounds
MaxTime == 1          \* the clock runs over 0..MaxTime
MaxInvocations == 2   \* translator invocations counted per key (cap)

\* ------------------------------------------------------- python values
\* A Python value is a tagged record: str, list, dict (insertion-ordered
\* sequence of <<key, value>> pairs with string keys) or None.
None == [t |-> "none"]
Str(s) == [t |-> "str", v |-> s]
List(xs) == [t |-> "list", v |-> xs]
Dict(pairs) == [t |-> "dict", v |-> pairs]

RECURSIVE DictIndex(_, _, _)
\* position of key k in the pairs of a dict, 0 when absent
DictIndex(pairs, k, i) ==
  IF i > Len(pairs) THEN 0
  ELSE IF pairs[i][1] = k THEN i ELSE DictIndex(pairs, k, i + 1)

\* dict.get(key, None)
DictGet(d, k) ==
  LET i == DictIndex(d.v, k, 1) IN IF i = 0 THEN None ELSE d.v[i][2]

\* d[key] = value: an existing key keeps its position, a new one is appended
DictSet(d, k, x) ==
  LET i == DictIndex(d.v, k, 1) IN
  IF i = 0 THEN Dict(Append(d.v, <<k, x>>))
  ELSE Dict([d.v EXCEPT ![i] = <<k, x>>])

DictKeys(d) == {d.v[i][1] : i \in 1..Len(d.v)}

\* ------------------------------------------------------------------ json
\* The serialized text is a sequence of tokens.
Tok(k) == [k |-> k]
TokStr(s) == [k |-> "str", s |-> s]

RECURSIVE json_dumps(_), DumpItems(_, _), DumpMembers(_, _)
DumpItems(xs, i) ==
  IF i > Len(xs) THEN <<>>
  ELSE (IF i > 1 THEN <<Tok(",")>> ELSE <<>>) \o json_dumps(xs[i]) \o DumpItems(xs, i + 1)

DumpMembers(ps, i) ==
  IF i > Len(ps) THEN <<>>
  ELSE (IF i > 1 THEN <<Tok(",")>> ELSE <<>>)
       \o <<TokStr(ps[i][1]), Tok(":")>> \o json_dumps(ps[i][2]) \o DumpMembers(ps, i + 1)

\* (mutant) a single string is written as a one-element list
json_dumps_wrap(x) ==
  CASE x.t = "none" -> <<Tok("null")>>
    [] x.t = "str"  -> <<Tok("["), TokStr(x.v), Tok("]")>>
    [] x.t = "list" -> <<Tok("[")>> \o DumpItems(x.v, 1) \o <<Tok("]")>>
    [] x.t = "dict" -> <<Tok("{")>> \o DumpMembers(x.v, 1) \o <<Tok("}")>>

json_dumps(x) ==
  CASE x.t = "none" -> <<Tok("null")>>
    [] x.t = "str"  -> <<TokStr(x.v)>>
    [] x.t = "list" -> <<Tok("[")>> \o DumpItems(x.v, 1) \o <<Tok("]")>>
    [] x.t = "dict" -> <<Tok("{")>> \o DumpMembers(x.v, 1) \o <<Tok("}")>>

\* The parser returns [ok, v, i]: the value read and the next position;
\* ok = FALSE stands for json.JSONDecodeError.
ParseFail == [ok |-> FALSE, v |-> None, i |-> 0]
ParseOk(x, i) == [ok |-> TRUE, v |-> x, i |-> i]
IsTok(toks, i, k) == i <= Len(toks) /\ toks[i].k = k

RECURSIVE ParseValue(_, _), ParseItems(_, _, _), ParseMembers(_, _, _)
ParseItems(toks, i, acc) ==
  LET r == ParseValue(toks, i) IN
  IF ~r.ok THEN ParseFail
  ELSE IF IsTok(toks, r.i, ",") THEN ParseItems(toks, r.i + 1, Append(acc, r.v))
  ELSE IF IsTok(toks, r.i, "]") THEN ParseOk(List(Append(acc, r.v)), r.i + 1)
  ELSE ParseFail

ParseMembers(toks, i, acc) ==
  IF ~(IsTok(toks, i, "str") /\ IsTok(toks, i + 1, ":")) THEN ParseFail
  ELSE LET r == ParseValue(toks, i + 2) IN
       IF ~r.ok THEN ParseFail
       ELSE LET d == DictSet(Dict(acc), toks[i].s, r.v).v IN
            IF IsTok(toks, r.i, ",") THEN ParseMembers(toks, r.i + 1, d)
            ELSE IF IsTok(toks, r.i, "}") THEN ParseOk(Dict(d), r.i + 1)
            ELSE ParseFail

ParseValue(toks, i) ==
  IF i > Len(toks) THEN ParseFail
  ELSE CASE toks[i].k = "null" -> ParseOk(None, i + 1)
         [] toks[i].k = "str" -> ParseOk(Str(toks[i].s), i + 1)
         [] toks[i].k = "[" ->
              IF IsTok(toks, i + 1, "]") THEN ParseOk(List(<<>>), i + 2)
              ELSE ParseItems(toks, i + 1, <<>>)
         [] toks[i].k = "{" ->
              IF IsTok(toks, i + 1, "}") THEN ParseOk(Dict(<<>>), i + 2)
              ELSE ParseMembers(toks, i + 1, <<>>)
         [] OTHER -> ParseFail

\* json.load of a whole document: one value, then the end of the text
json_loads(toks) ==
  LET r == ParseValue(toks, 1) IN
  IF r.ok /\ r.i = Len(toks) + 1 THEN r ELSE ParseFail

\* A file is absent, or holds gzip-compressed text.
NoFile == [f |-> "absent"]
GzFile(toks) == [f |-> "gz", data |-> toks]

\* ------------------------------------------------------------ inputs
Keys == {"2301.00001", "2301.00002"}              \* cache keys (arXiv ids)
\* the (text, target_lang) arguments of a call: a list of sentences, as
\* translate_arxiv passes, or a single string
Requests == {[text |-> List(<<Str("A."), Str("B.")>>), target_lang |-> "JA"],
             [text |-> Str("A."), target_lang |-> "DE"]}
Thresholds == 0..MaxTime                          \* expire_timedelta, in ticks

VARIABLES
  cache,     \* DeepLCache.cache
  file,      \* the local file `filename`
  blob,      \* the object `filename` in the GCS bucket
  now,       \* datetime.now(timezone.utc), in ticks
  pc,        \* where the caller is
  exc,       \* the exception the last call raised, or "none"
  ret,       \* the value the last call returned
  last,      \* the last call: its name, its arguments, the cache before it
  invoked,   \* translator invocations per key since the cache was last reset
  first,     \* per key, what the first translate_text since then returned
  saved,     \* the mapping the last save wrote
  arxiv_df_top_n,  \* main: the rows (arxiv_id, summary) to translate
  idx,       \* main: translate_arxiv's position in arxiv_df_top_n
  timeline,  \* the matching tweets the search API has not served yet, newest first
  page_limit,\* search_recent_tweets: page_limit
  pages,     \* the responses the Paginator has yielded so far
  tweets,    \* search_recent_tweets: tweets
  users,     \* search_recent_tweets: users
  meta,      \* search_recent_tweets: meta
  iter,      \* search_recent_tweets: i
  tweets_raw,   \* summarize: what search_recent_tweets returned
  tweets_dfs,   \* summarize: what convert_to_dfs returned
  arxiv_stats,  \* summarize: what get_arxiv_stats returned
  id_list,      \* get_arxiv_contents: id_list
  chunk_size,   \* get_arxiv_contents: chunk_size
  cdr,          \* get_arxiv_contents: cdr
  chunk_i,      \* get_arxiv_contents: i
  rs,           \* get_arxiv_contents: rs
  lookups,      \* the arxiv.Search lookups issued so far and their outcomes
  arxiv_contents,  \* summarize: what get_arxiv_contents returned
  arxiv_df,     \* summarize: the merged table it returns
  events,       \* the calls made to the publishing services and the sleeps, in order
  post_df,      \* post_to_slack / post_to_twitter: df (already reversed)
  post_tweets,  \* post_to_slack / post_to_twitter: arxiv_tweets_df
  post_i,       \* the position in df
  top_n_tweets, \* the tweets post_to_*_tweets still has to post
  prev_tweet_id,\* post_to_twitter: prev_tweet_id
  account,      \* delete_all_tweets: the account's tweets, newest first
  account0,     \* the account's tweets when delete_all_tweets was called
  unserved,     \* get_oldest_tweet_ids: the tweets the Paginator has not served yet
  served_pages, \* get_oldest_tweet_ids: the number of responses so far
  oldest_tweets,\* get_oldest_tweet_ids: oldest_tweets
  total_count,  \* get_oldest_tweet_ids: total_count
  tweet_ids,    \* delete_all_tweets: the ids of this round still to delete
  delete_count, \* delete_all_tweets: delete_count
  deleted       \* the ids delete_tweet was called with, in order, and the answers

cacheVars == <<cache, file, blob, now, pc, exc, ret, last, invoked, first, saved>>
mainVars == <<arxiv_df_top_n, idx>>
pipeVars == <<timeline, page_limit, pages, tweets, users, meta, iter,
              tweets_raw, tweets_dfs, arxiv_stats>>
contVars == <<id_list, chunk_size, cdr, chunk_i, rs, lookups, arxiv_contents, arxiv_df>>
postVars == <<events, post_df, post_tweets, post_i, top_n_tweets, prev_tweet_id>>
delVars == <<account, account0, unserved, served_pages, oldest_tweets, total_count,
             tweet_ids, delete_count, deleted>>
otherVars == <<contVars, postVars, delVars>>

\* the pipeline's variables while only the cache is exercised
PipeIdle ==
  /\ timeline = <<>> /\ page_limit = 0 /\ pages = <<>>
  /\ tweets = <<>> /\ users = <<>> /\ meta = <<>> /\ iter = 0
  /\ tweets_raw = None /\ tweets_dfs = None /\ arxiv_stats = None

\* get_arxiv_contents not called yet
ContIdle ==
  /\ id_list = <<>> /\ chunk_size = 0 /\ cdr = <<>> /\ chunk_i = 0
  /\ rs = <<>> /\ lookups = <<>> /\ arxiv_contents = None /\ arxiv_df = None

\* nothing published yet
PostIdle ==
  /\ events = <<>> /\ post_df = <<>> /\ post_tweets = <<>> /\ post_i = 0
  /\ top_n_tweets = <<>> /\ prev_tweet_id = None

\* delete_all_tweets is another program
DelIdle ==
  /\ account = <<>> /\ account0 = <<>> /\ unserved = <<>> /\ served_pages = 0
  /\ oldest_tweets = <<>> /\ total_count = 0 /\ tweet_ids = <<>>
  /\ delete_count = 0 /\ deleted = <<>>

OtherIdle == ContIdle /\ PostIdle /\ DelIdle

\* datetime.isoformat() / datetime.fromisoformat()
isoformat(n) == "T" \o ToString(n)
fromisoformat(s) == CHOOSE n \in 0..(MaxTime + 1) : isoformat(n) = s

\* ------------------------------------------------- deepl.Translator
\* One result object per input string; a list in gives a list out.
DeepLResult(s, lang) == [text |-> lang \o ":" \o s.v]
translator_translate_text(text, target_lang) ==
  IF text.t = "list"
  THEN [i \in 1..Len(text.v) |-> DeepLResult(text.v[i], target_lang)]
  ELSE DeepLResult(text, target_lang)

\* ------------------------------------------------------- DeepLCache
NoCalls == [k \in Keys |-> 0]
NoFirst == [k \in Keys |-> None]
Idle == [op |-> "none"]

\* the ghost history starts over when the mapping is replaced
ResetHistory == invoked' = NoCalls /\ first' = NoFirst

\* DeepLCache.get
get(key) == DictGet(cache, key)

\* DeepLCache.__init__: a fresh object
init ==
  /\ cache' = Dict(<<>>)
  /\ ResetHistory
  /\ exc' = "none" /\ ret' = None /\ last' = [op |-> "init"]
  /\ UNCHANGED <<file, blob, now, saved>>

\* (mutant) the lookup is skipped: every call goes to the translator
translate_text_always(text, target_lang, key) ==
  /\ invoked[key] < MaxInvocations
  /\ invoked' = [invoked EXCEPT ![key] = @ + 1]
  /\ LET result == translator_translate_text(text, target_lang)
         trans_texts == IF text.t = "list"
                        THEN List([i \in 1..Len(result) |-> Str(result[i].text)])
                        ELSE Str(result.text)
         trans == List(<<trans_texts, Str(isoformat(now))>>)
     IN /\ cache' = DictSet(cache, key, trans)
        /\ ret' = trans
        /\ first' = [first EXCEPT ![key] = IF @ = None THEN trans ELSE @]
        /\ exc' = "none"
  /\ last' = [op |-> "translate_text", key |-> key, lang |-> target_lang,
              again |-> first[key] # None]
  /\ UNCHANGED <<file, blob, now, saved>>

\* DeepLCache.translate_text
translate_text(text, target_lang, key) ==
  LET trans == get(key) IN
  /\ last' = [op |-> "translate_text", key |-> key, lang |-> target_lang,
              again |-> first[key] # None]
  /\ UNCHANGED <<file, blob, now, saved>>
  /\ IF trans # None
     THEN /\ ret' = trans
          /\ first' = [first EXCEPT ![key] = IF @ = None THEN trans ELSE @]
          /\ exc' = "none"
          /\ UNCHANGED <<cache, invoked>>
     ELSE /\ invoked[key] < MaxInvocations
          /\ invoked' = [invoked EXCEPT ![key] = @ + 1]
          /\ \/ LET result == translator_translate_text(text, target_lang)
                    trans_texts == IF text.t = "list"
                                   THEN List([i \in 1..Len(result) |-> Str(result[i].text)])
                                   ELSE Str(result.text)
                    trans_ts == isoformat(now)
                    new == List(<<trans_texts, Str(trans_ts)>>)
                IN /\ cache' = DictSet(cache, key, new)
                   /\ ret' = new
                   /\ first' = [first EXCEPT ![key] = IF @ = None THEN new ELSE @]
                   /\ exc' = "none"
             \/ \* the translator raises: nothing is stored
                /\ exc' = "DeepLException"
                /\ ret' = None
                /\ UNCHANGED <<cache, first>>

\* DeepLCache.clear_cache(): the method takes no argument
clear_cache ==
  /\ cache' = Dict(<<>>)
  /\ ResetHistory
  /\ exc' = "none" /\ ret' = None
  /\ last' = [op |-> "clear_cache", before |-> cache]
  /\ UNCHANGED <<file, blob, now, saved>>

\* clear_cache(expire_timedelta=...), as main calls it: the method has no
\* such parameter, so the call raises TypeError before its body runs
clear_cache_expire(expire_timedelta) ==
  /\ exc' = "TypeError" /\ ret' = None
  /\ last' = [op |-> "clear_cache_expire", expire |-> expire_timedelta,
              at |-> now, before |-> cache]
  /\ UNCHANGED <<cache, invoked, first, file, blob, now, saved>>

\* DeepLCache.save
save ==
  /\ file' = GzFile(json_dumps(cache))
  /\ saved' = cache
  /\ exc' = "none" /\ ret' = None
  /\ last' = [op |-> "save"]
  /\ UNCHANGED <<cache, invoked, first, blob, now>>

\* DeepLCache.load on file f: gzip.open and json.load raise on a missing or
\* undecodable file, and then self.cache is not assigned
LoadFile(f) ==
  LET r == IF f = NoFile THEN ParseFail ELSE json_loads(f.data) IN
  IF r.ok
  THEN cache' = r.v /\ ResetHistory /\ exc' = "none"
  ELSE exc' = "OSError" /\ UNCHANGED <<cache, invoked, first>>

load ==
  /\ ret' = None
  /\ last' = [op |-> "load", before |-> cache]
  /\ LoadFile(file)
  /\ UNCHANGED <<file, blob, now, saved>>

\* DeepLCache.load_from_gcs: download the blob to the local file, then load
\* it; the download raises NotFound when the bucket has no such object
load_from_gcs ==
  /\ ret' = None
  /\ last' = [op |-> "load_from_gcs", before |-> cache]
  /\ UNCHANGED <<blob, now, saved>>
  /\ IF blob = NoFile
     THEN exc' = "NotFound" /\ UNCHANGED <<cache, invoked, first, file>>
     ELSE file' = blob /\ LoadFile(blob)

\* time passes
Tick ==
  /\ now < MaxTime
  /\ now' = now + 1
  /\ UNCHANGED <<cache, file, blob, exc, ret, last, invoked, first, saved>>

\* ---------------------------------------- SpecCache: one cache object
\* Any caller of the class.  As in main(), an exception of load is caught
\* (main.py:496-499) and any other exception ends the process.
Outcome(caught) ==
  pc' = IF exc' = "none" \/ exc' \in caught THEN "running" ELSE "aborted"

CallTranslateText ==
  /\ pc = "running"
  /\ \E r \in Requests, key \in Keys : translate_text(r.text, r.target_lang, key)
  /\ Outcome({})
  /\ UNCHANGED <<mainVars, pipeVars, otherVars>>
CallGet ==
  /\ pc = "running"
  /\ \E key \in Keys : ret' = get(key) /\ last' = [op |-> "get", key |-> key]
  /\ exc' = "none"
  /\ UNCHANGED <<cache, file, blob, now, pc, invoked, first, saved>>
  /\ UNCHANGED <<mainVars, pipeVars, otherVars>>
CallInit == pc = "running" /\ init /\ Outcome({}) /\ UNCHANGED <<mainVars, pipeVars, otherVars>>
CallClearCache == pc = "running" /\ clear_cache /\ Outcome({}) /\ UNCHANGED <<mainVars, pipeVars, otherVars>>
CallClearCacheExpire ==
  /\ pc = "running"
  /\ \E expire_timedelta \in Thresholds : clear_cache_expire(expire_timedelta)
  /\ Outcome({})
  /\ UNCHANGED <<mainVars, pipeVars, otherVars>>
CallSave == pc = "running" /\ save /\ Outcome({}) /\ UNCHANGED <<mainVars, pipeVars, otherVars>>
CallLoad == pc = "running" /\ load /\ Outcome({"OSError"}) /\ UNCHANGED <<mainVars, pipeVars, otherVars>>
CallTick == pc = "running" /\ Tick /\ UNCHANGED pc /\ UNCHANGED <<mainVars, pipeVars, otherVars>>

InitCache ==
  /\ cache = Dict(<<>>)
  /\ file = NoFile /\ blob = NoFile
  /\ now = 0
  /\ pc = "running" /\ exc = "none" /\ ret = None /\ last = Idle
  /\ invoked = NoCalls /\ first = NoFirst
  /\ saved = None
  /\ arxiv_df_top_n = <<>> /\ idx = 0
  /\ PipeIdle /\ OtherIdle

NextCache ==
  \/ CallTranslateText
  \/ CallGet
  \/ CallInit
  \/ CallClearCache
  \/ CallClearCacheExpire
  \/ CallSave
  \/ CallLoad
  \/ CallTick

\* ------------------------------------------------ SpecMain: main()
\* main.py:494-502.  The process starts with a fresh DeepLCache, the rows to
\* translate and whatever an earlier run (or nobody) left in the bucket.
ExpireDays == 30                                     \* timedelta(days=30)
Summaries == {<<"A.", "B.">>, <<"A.">>}              \* a summary, as its sentences
\* pysbd: Segmenter.segment(summary)
segment(summary) == List([i \in 1..Len(summary) |-> Str(summary[i])])

\* the first rows of the ranked table: distinct arXiv ids, each with a summary
TopNs ==
  {df \in UNION {[1..n -> [arxiv_id : Keys, summary : Summaries]] : n \in 0..Cardinality(Keys)} :
     \A i, j \in 1..Len(df) : df[i].arxiv_id = df[j].arxiv_id => i = j}

\* what an earlier run's save_to_gcs left: entries translated at time 0
OldEntry == List(<<List(<<Str("JA:A."), Str("JA:B.")>>), Str(isoformat(0))>>)
PersistedCaches ==
  {Dict([i \in 1..Len(ks) |-> <<ks[i], OldEntry>>]) :
     ks \in {q \in UNION {[1..n -> Keys] : n \in 0..Cardinality(Keys)} :
               \A i, j \in 1..Len(q) : q[i] = q[j] => i = j}}
\* a corrupt object: a persisted text cut short
Truncations(toks) == {SubSeq(toks, 1, n) : n \in 0..(Len(toks) - 1)}
StoredBlobs ==
  {NoFile}
  \cup {GzFile(json_dumps(c)) : c \in PersistedCaches}
  \cup {GzFile(t) : t \in UNION {Truncations(json_dumps(c)) : c \in PersistedCaches}}

InitMain ==
  /\ cache = Dict(<<>>)                 \* dlc = deeplcache.DeepLCache(deepl_api)
  /\ file = NoFile
  /\ blob \in StoredBlobs
  /\ now = 0
  /\ pc = "load_from_gcs" /\ exc = "none" /\ ret = None /\ last = Idle
  /\ invoked = NoCalls /\ first = NoFirst
  /\ saved = None
  /\ arxiv_df_top_n \in TopNs
  /\ idx = 1
  /\ PipeIdle /\ OtherIdle

\* (mutant) the try/except around load_from_gcs is missing
MainLoadFromGcsUncaught ==
  /\ pc = "load_from_gcs"
  /\ load_from_gcs
  /\ pc' = IF exc' = "none" THEN "translate_arxiv" ELSE "aborted"
  /\ UNCHANGED <<mainVars, pipeVars, otherVars>>

\* main.py:496-499: try: dlc.load_from_gcs(...) except Exception: print(e)
MainLoadFromGcs ==
  /\ pc = "load_from_gcs"
  /\ load_from_gcs
  /\ pc' = "translate_arxiv"
  /\ UNCHANGED <<mainVars, pipeVars, otherVars>>

\* translate_arxiv, one round of its loop (main.py:225-229); an exception of
\* the translator is caught nowhere
MainTranslate ==
  /\ pc = "translate_arxiv"
  /\ idx <= Len(arxiv_df_top_n)
  /\ LET row == arxiv_df_top_n[idx] IN
     translate_text(segment(row.summary), "JA", row.arxiv_id)
  /\ idx' = idx + 1
  /\ pc' = IF exc' = "none" THEN "translate_arxiv" ELSE "aborted"
  /\ UNCHANGED <<arxiv_df_top_n, pipeVars, otherVars>>

\* translate_arxiv returns (main.py:232)
MainTranslateReturn ==
  /\ pc = "translate_arxiv"
  /\ idx > Len(arxiv_df_top_n)
  /\ pc' = "clear_cache"
  /\ UNCHANGED <<cache, file, blob, now, exc, ret, last, invoked, first, saved>>
  /\ UNCHANGED <<mainVars, pipeVars, otherVars>>

\* main.py:501: dlc.clear_cache(expire_timedelta=timedelta(days=30))
MainClearCache ==
  /\ pc = "clear_cache"
  /\ clear_cache_expire(ExpireDays)
  /\ pc' = IF exc' = "none" THEN "save_to_gcs" ELSE "aborted"
  /\ UNCHANGED <<mainVars, pipeVars, otherVars>>

NextMain ==
  \/ MainLoadFromGcs
  \/ MainTranslate
  \/ MainTranslateReturn
  \/ MainClearCache

\* ------------------------------------------ the search API's responses
MaxPages == 2         \* page_limit runs over 1..MaxPages
MaxPageTweets == 2    \* tweets on one page (max_results)

NaN == [t |-> "nan"]

\* URLs that tweets carry
A1 == "https://arxiv.org/abs/2301.00001"
A1P == "http://arxiv.org/pdf/2301.00001v2.pdf"
A2 == "https://arxiv.org/abs/2301.00002"
BAD == "https://arxiv.org/abs/abc"
X == "https://example.com/a"

\* one item of entities.urls; unwound_url is optional
Url(e) == [k \in {"expanded_url"} |-> e]
Unwound(e, u) == [k \in {"expanded_url", "unwound_url"} |-> IF k = "expanded_url" THEN e ELSE u]

\* t.data of a tweet, with the names json_normalize and the rename of
\* convert_to_dfs give its nested fields; urls = <<>>: no entities.urls
Tweet(id, a, l, r, q, p, us) ==
  [id |-> id, author_id |-> a, like_count |-> l, retweet_count |-> r,
   quote_count |-> q, reply_count |-> p, urls |-> us]

\* the tweets that may match the query, newest first
TweetPool ==
  << Tweet("t6", "u2", 2, 0, 1, 0, <<Unwound(A1, A1)>>),
     Tweet("t5", "u2", 2, 1, 0, 0, <<Unwound(A2, A2), Unwound(BAD, BAD)>>),
     Tweet("t4", "u1", 2, 1, 0, 0, <<Unwound(A1, A1), Unwound(A1P, A1P)>>),
     Tweet("t3", "u2", 1, 0, 1, 0, <<Unwound(X, A1P), Unwound(A2, X)>>),
     Tweet("t2", "u1", 2, 0, 0, 1, <<Url(A2)>>),
     Tweet("t1", "u2", 0, 0, 0, 0, <<>>) >>

\* u.data of a user, as the API may send it: u1 changes its display name
UserRecords(a) ==
  IF a = "u1"
  THEN {[id |-> "u1", name |-> "Ann", username |-> "ann"],
        [id |-> "u1", name |-> "Anna", username |-> "ann"]}
  ELSE {[id |-> a, name |-> "Bob", username |-> "bob"]}

RECURSIVE SubSeqs(_)
\* the subsequences of a sequence (relative order kept)
SubSeqs(q) ==
  IF q = <<>> THEN {<<>>}
  ELSE LET rest == SubSeqs(Tail(q)) IN rest \cup {<<Head(q)>> \o r : r \in rest}

Range(q) == {q[j] : j \in 1..Len(q)}

RECURSIVE ConcatAll(_, _)
\* the concatenation of the sequences qs[j], qs[j+1], ...
ConcatAll(qs, j) == IF j > Len(qs) THEN <<>> ELSE qs[j] \o ConcatAll(qs, j + 1)

RECURSIVE Sum(_, _)
Sum(q, j) == IF j > Len(q) THEN 0 ELSE q[j] + Sum(q, j + 1)

\* get_unique_list: the elements of seq, each kept at its first occurrence;
\* `x not in seen` compares whole elements
RECURSIVE UniqueFrom(_, _, _)
UniqueFrom(seq, j, seen) ==
  IF j > Len(seq) THEN seen
  ELSE UniqueFrom(seq, j + 1, IF seq[j] \in Range(seen) THEN seen ELSE Append(seen, seq[j]))

get_unique_list(seq) == UniqueFrom(seq, 1, <<>>)

\* response.meta, a dict: a function on the keys it carries.  An empty page
\* has no newest_id/oldest_id; a response without "meta" gives {}.
PageMeta(data, token, malformed) ==
  LET ks == IF malformed THEN {}
            ELSE {"result_count"}
                 \cup (IF Len(data) > 0 THEN {"newest_id", "oldest_id"} ELSE {})
                 \cup (IF token THEN {"next_token"} ELSE {})
  IN [k \in ks |->
        CASE k = "result_count" -> Len(data)
          [] k = "newest_id" -> Str(data[1].id)
          [] k = "oldest_id" -> Str(data[Len(data)].id)
          [] k = "next_token" -> Str("next")]

\* response.includes['users']: one record per author of the page, in order
\* of appearance
PageUsers(data) ==
  LET authors == get_unique_list([j \in 1..Len(data) |-> data[j].author_id]) IN
  {us \in [1..Len(authors) -> UNION {UserRecords(a) : a \in Range(authors)}] :
     \A j \in 1..Len(authors) : us[j] \in UserRecords(authors[j])}

\* the responses the Paginator may yield next: the k newest tweets not yet
\* served, with a next_token whenever more remain
Responses ==
  UNION {
    LET data == SubSeq(timeline, 1, k) IN
    {[data |-> data, users |-> us, meta |-> PageMeta(data, tk, mf)] :
       us \in PageUsers(data),
       tk \in (IF k < Len(timeline) THEN {TRUE} ELSE {TRUE, FALSE}),
       mf \in {FALSE, TRUE}}
    : k \in 0..(IF Len(timeline) < MaxPageTweets THEN Len(timeline) ELSE MaxPageTweets)}

\* ------------------------------------------------ search_recent_tweets
Meta0 == [newest_id |-> None, oldest_id |-> None, result_count |-> 0, next_token |-> None]

\* (mutant) result_count is assigned, not added
MergeMetaAssign(m, r) ==
  [result_count |-> r["result_count"],
   next_token |-> IF "next_token" \in DOMAIN r THEN r["next_token"] ELSE None,
   newest_id |-> IF "newest_id" \in DOMAIN r /\ m.newest_id = None
                 THEN r["newest_id"] ELSE m.newest_id,
   oldest_id |-> IF "oldest_id" \in DOMAIN r THEN r["oldest_id"] ELSE m.oldest_id]

\* (mutant) newest_id is overwritten by every page that carries one
MergeMetaNewestLast(m, r) ==
  [result_count |-> m.result_count + r["result_count"],
   next_token |-> IF "next_token" \in DOMAIN r THEN r["next_token"] ELSE None,
   newest_id |-> IF "newest_id" \in DOMAIN r THEN r["newest_id"] ELSE m.newest_id,
   oldest_id |-> IF "oldest_id" \in DOMAIN r THEN r["oldest_id"] ELSE m.oldest_id]

\* the "merge meta" lines of the loop (main.py:123-126), r = response.meta
MergeMeta(m, r) ==
  [result_count |-> m.result_count + r["result_count"],
   next_token |-> IF "next_token" \in DOMAIN r THEN r["next_token"] ELSE None,
   newest_id |-> IF "newest_id" \in DOMAIN r /\ m.newest_id = None
                 THEN r["newest_id"] ELSE m.newest_id,
   oldest_id |-> IF "oldest_id" \in DOMAIN r THEN r["oldest_id"] ELSE m.oldest_id]

\* one round of the loop over the Paginator (main.py:117-127).  The lists are
\* extended before meta is merged; response.meta['result_count'] raises
\* KeyError when the key is missing, and nothing catches it.
SearchPage ==
  /\ pc = "search_recent_tweets"
  /\ iter < page_limit
  /\ iter = 0 \/ meta.next_token # None
  /\ \E response \in Responses :
       /\ pages' = Append(pages, response)
       /\ timeline' = SubSeq(timeline, Len(response.data) + 1, Len(timeline))
       /\ tweets' = IF Len(response.data) > 0 THEN tweets \o response.data ELSE tweets
       /\ users' = IF Len(response.users) > 0 THEN users \o response.users ELSE users
       /\ IF "result_count" \in DOMAIN response.meta
          THEN /\ meta' = MergeMeta(meta, response.meta)
               /\ iter' = iter + 1
               /\ pc' = "search_recent_tweets" /\ exc' = "none"
          ELSE /\ pc' = "raised" /\ exc' = "KeyError"
               /\ UNCHANGED <<meta, iter>>
  /\ last' = [op |-> "search_recent_tweets"]
  /\ UNCHANGED <<page_limit, tweets_raw, tweets_dfs, arxiv_stats>>
  /\ UNCHANGED <<cache, file, blob, now, ret, invoked, first, saved, mainVars, otherVars>>

\* the Paginator is exhausted (no next_token, or page_limit pages): return
SearchReturn ==
  /\ pc = "search_recent_tweets"
  /\ iter = page_limit \/ (iter > 0 /\ meta.next_token = None)
  /\ tweets_raw' = [data |-> tweets, includes |-> [users |-> get_unique_list(users)],
                    meta |-> meta]
  /\ pc' = "convert_to_dfs"
  /\ last' = [op |-> "search_recent_tweets"]
  /\ UNCHANGED <<timeline, page_limit, pages, tweets, users, meta, iter, tweets_dfs, arxiv_stats>>
  /\ UNCHANGED <<cache, file, blob, now, exc, ret, invoked, first, saved, mainVars, otherVars>>

\* ------------------------------------------------------ convert_to_dfs
\* A DataFrame: its columns and its rows (functions on the columns).
DataFrame(cols, rows) == [columns |-> cols, rows |-> rows]
TweetColumns == {"id", "author_id", "like_count", "retweet_count", "quote_count", "reply_count"}

\* extract(tweets_df, 'urls'): one row per item of a list-valued urls cell,
\* tagged with the tweet's id; json_normalize makes a column of every key some
\* item carries and fills the others' cells with NaN.  No item: no column.
extract_urls(data) ==
  LET results == ConcatAll([j \in 1..Len(data) |->
                   [k \in 1..Len(data[j].urls) |-> [id |-> data[j].id, item |-> data[j].urls[k]]]], 1)
      cols == IF Len(results) = 0 THEN {}
              ELSE {"id"} \cup UNION {DOMAIN r.item : r \in Range(results)}
  IN DataFrame(cols,
       [j \in 1..Len(results) |->
          [c \in cols |-> IF c = "id" THEN Str(results[j].id)
                          ELSE IF c \in DOMAIN results[j].item THEN Str(results[j].item[c])
                          ELSE NaN]])

\* convert_to_dfs: the users table (id renamed author_id), the urls table and
\* the tweets table without its list-valued columns
convert_to_dfs(raw) ==
  [meta |-> raw.meta,
   users |-> DataFrame(IF Len(raw.includes.users) = 0 THEN {} ELSE {"author_id", "name", "username"},
                       [j \in 1..Len(raw.includes.users) |->
                          [author_id |-> raw.includes.users[j].id,
                           name |-> raw.includes.users[j].name,
                           username |-> raw.includes.users[j].username]]),
   urls |-> extract_urls(raw.data),
   tweets |-> DataFrame(IF Len(raw.data) = 0 THEN {} ELSE TweetColumns,
                        [j \in 1..Len(raw.data) |-> [c \in TweetColumns |-> raw.data[j][c]]])]

ConvertToDfs ==
  /\ pc = "convert_to_dfs"
  /\ tweets_dfs' = convert_to_dfs(tweets_raw)
  /\ pc' = "get_arxiv_stats"
  /\ last' = [op |-> "convert_to_dfs"]
  /\ UNCHANGED <<timeline, page_limit, pages, tweets, users, meta, iter, tweets_raw, arxiv_stats>>
  /\ UNCHANGED <<cache, file, blob, now, exc, ret, invoked, first, saved, mainVars, otherVars>>

\* ---------------------------------------------------- ARXIV_URL_PATTERN
\* ^https?://arxiv\.org/(abs|pdf)/([0-9]{4}\.[0-9]{4,6})(v[0-9]+)?(\.pdf)?$
DigitChars == {"0", "1", "2", "3", "4", "5", "6", "7", "8", "9"}
StartsWith(str, j, p) == j + Len(p) - 1 <= Len(str) /\ SubSeq(str, j, j + Len(p) - 1) = p
RECURSIVE DigitRun(_, _)
\* the number of digits that follow each other from position j on
DigitRun(str, j) ==
  IF j <= Len(str) /\ SubSeq(str, j, j) \in DigitChars THEN 1 + DigitRun(str, j + 1) ELSE 0

NoMatch == [ok |-> FALSE]
\* (v[0-9]+)?(\.pdf)?$ from position q: the length of group 3, or -1
VersionAt(str, q) ==
  LET v == IF StartsWith(str, q, "v") /\ DigitRun(str, q + 1) >= 1
           THEN 1 + DigitRun(str, q + 1) ELSE 0
      e == IF StartsWith(str, q + v, ".pdf") THEN 4 ELSE 0
  IN IF q + v + e = Len(str) + 1 THEN v ELSE -1

\* ARXIV_URL_PATTERN.match(str): group 2 (id) and group 3 (version, "" with
\* has_version = FALSE when the group did not take part)
ArxivMatch(str) ==
  LET p0 == IF StartsWith(str, 1, "https") THEN 6
            ELSE IF StartsWith(str, 1, "http") THEN 5 ELSE 0
      p1 == p0 + 13
      p3 == p1 + 4
      p4 == p3 + 5
      ds == {d \in 4..6 : d <= DigitRun(str, p4) /\ VersionAt(str, p4 + d) >= 0}
  IN IF /\ p0 > 0
        /\ StartsWith(str, p0, "://arxiv.org/")
        /\ (StartsWith(str, p1, "abs") \/ StartsWith(str, p1, "pdf"))
        /\ StartsWith(str, p1 + 3, "/")
        /\ DigitRun(str, p3) = 4
        /\ StartsWith(str, p3 + 4, ".")
        /\ ds # {}
     THEN LET d == CHOOSE x \in ds : \A y \in ds : y <= x
              v == VersionAt(str, p4 + d)
          IN [ok |-> TRUE,
              id |-> SubSeq(str, p3, p4 + d - 1),
              has_version |-> v > 0,
              version |-> SubSeq(str, p4 + d, p4 + d + v - 1)]
     ELSE NoMatch

\* ------------------------------------------------------ get_arxiv_stats
\* Python's x != 0 for a cell of the urls table: a str and NaN both differ
\* from 0
NotEqualZero(x) == CASE x.t = "str" -> TRUE [] x.t = "nan" -> TRUE [] OTHER -> x.v # 0

\* the lambda of main.py:170: x[1] if x[1] != 0 else x[0]
EffectiveUrl(row) ==
  IF NotEqualZero(row["unwound_url"]) THEN row["unwound_url"] ELSE row["expanded_url"]

\* Series.str.extract(ARXIV_URL_PATTERN)[1]: group 2, NaN for NaN or no match
str_extract(u) ==
  IF u.t = "nan" THEN NaN
  ELSE LET m == ArxivMatch(u.v) IN IF m.ok THEN Str(m.id) ELSE NaN

\* main.py:171: (id, arxiv_id) per urls row, dropna(), drop_duplicates()
arxiv_ids_of(urls_df) ==
  LET all == [j \in 1..Len(urls_df.rows) |->
                [id |-> urls_df.rows[j]["id"].v,
                 arxiv_id |-> str_extract(EffectiveUrl(urls_df.rows[j]))]]
      kept == SelectSeq(all, LAMBDA r : r.arxiv_id # NaN)
  IN get_unique_list([j \in 1..Len(kept) |-> [id |-> kept[j].id, arxiv_id |-> kept[j].arxiv_id.v]])

\* pd.merge(tweets_df, users_df, on='author_id'): every pair of a tweet row
\* and a user row with that author_id
merge_tweets_users(tweets_df, users_df) ==
  ConcatAll([j \in 1..Len(tweets_df.rows) |->
    LET t == tweets_df.rows[j]
        us == SelectSeq(users_df.rows, LAMBDA u : u.author_id = t["author_id"])
    IN [k \in 1..Len(us) |->
          [id |-> t["id"], author_id |-> t["author_id"],
           like_count |-> t["like_count"], retweet_count |-> t["retweet_count"],
           quote_count |-> t["quote_count"], reply_count |-> t["reply_count"],
           name |-> us[k].name, username |-> us[k].username]]], 1)

\* pd.merge(arxiv_ids_df, ..., on='id')
merge_arxiv_ids(arxiv_ids, joined) ==
  ConcatAll([j \in 1..Len(arxiv_ids) |->
    LET hits == SelectSeq(joined, LAMBDA r : r.id = arxiv_ids[j].id)
    IN [k \in 1..Len(hits) |->
          [arxiv_id |-> arxiv_ids[j].arxiv_id, id |-> hits[k].id, author_id |-> hits[k].author_id,
           like_count |-> hits[k].like_count, retweet_count |-> hits[k].retweet_count,
           quote_count |-> hits[k].quote_count, reply_count |-> hits[k].reply_count,
           name |-> hits[k].name, username |-> hits[k].username]]], 1)

\* the order of strings: groupby sorts its keys
Alphabet == ".0123456789"
CharCode(c) == CHOOSE n \in 1..Len(Alphabet) : SubSeq(Alphabet, n, n) = c
RECURSIVE StrLessFrom(_, _, _)
StrLessFrom(a, b, j) ==
  IF j > Len(b) THEN FALSE
  ELSE IF j > Len(a) THEN TRUE
  ELSE IF SubSeq(a, j, j) = SubSeq(b, j, j) THEN StrLessFrom(a, b, j + 1)
  ELSE CharCode(SubSeq(a, j, j)) < CharCode(SubSeq(b, j, j))
StrLess(a, b) == StrLessFrom(a, b, 1)

RECURSIVE SortedKeys(_)
SortedKeys(S) ==
  IF S = {} THEN <<>>
  ELSE LET k == CHOOSE x \in S : \A y \in S \ {x} : StrLess(x, y)
       IN <<k>> \o SortedKeys(S \ {k})

\* groupby('arxiv_id'): sum(numeric_only=True) and ['id'].count() per key
group_row(rows, key) ==
  LET g == SelectSeq(rows, LAMBDA r : r.arxiv_id = key) IN
  [arxiv_id |-> key,
   like_count |-> Sum([j \in 1..Len(g) |-> g[j].like_count], 1),
   retweet_count |-> Sum([j \in 1..Len(g) |-> g[j].retweet_count], 1),
   quote_count |-> Sum([j \in 1..Len(g) |-> g[j].quote_count], 1),
   reply_count |-> Sum([j \in 1..Len(g) |-> g[j].reply_count], 1),
   tweet_count |-> Len(g)]

\* sort_values(by=[like_count, retweet_count, quote_count, reply_count,
\* tweet_count], ascending=False): a stable sort
\* (mutant) the rows are ordered by like_count alone
SortKeyLikeOnly(r) == <<r.like_count>>

SortKey(r) == <<r.like_count, r.retweet_count, r.quote_count, r.reply_count, r.tweet_count>>
RECURSIVE TupleGreaterFrom(_, _, _)
TupleGreaterFrom(a, b, j) ==
  IF j > Len(a) THEN FALSE
  ELSE IF a[j] = b[j] THEN TupleGreaterFrom(a, b, j + 1) ELSE a[j] > b[j]
RECURSIVE InsertDesc(_, _, _)
\* r goes before the first row it is greater than
InsertDesc(sorted, r, j) ==
  IF j > Len(sorted) THEN Append(sorted, r)
  ELSE IF TupleGreaterFrom(SortKey(r), SortKey(sorted[j]), 1)
       THEN SubSeq(sorted, 1, j - 1) \o <<r>> \o SubSeq(sorted, j, Len(sorted))
       ELSE InsertDesc(sorted, r, j + 1)
RECURSIVE SortDescFrom(_, _, _)
SortDescFrom(rows, j, sorted) ==
  IF j > Len(rows) THEN sorted ELSE SortDescFrom(rows, j + 1, InsertDesc(sorted, rows[j], 1))
sort_values(rows) == SortDescFrom(rows, 1, <<>>)

\* get_arxiv_stats (main.py:169-179); indexing a table by a column it does
\* not have raises KeyError
GetArxivStats ==
  /\ pc = "get_arxiv_stats"
  /\ last' = [op |-> "get_arxiv_stats"]
  /\ IF /\ {"expanded_url", "unwound_url"} \subseteq tweets_dfs.urls.columns
        /\ "author_id" \in tweets_dfs.tweets.columns
        /\ "author_id" \in tweets_dfs.users.columns
     THEN LET arxiv_ids_df == arxiv_ids_of(tweets_dfs.urls)
              joined == merge_arxiv_ids(arxiv_ids_df,
                          merge_tweets_users(tweets_dfs.tweets, tweets_dfs.users))
              keys == SortedKeys({r.arxiv_id : r \in Range(joined)})
              sums == [j \in 1..Len(keys) |-> group_row(joined, keys[j])]
          IN /\ arxiv_stats' = [arxiv_ids |-> arxiv_ids_df,
                                arxiv_stats |-> sort_values(sums),
                                arxiv_tweets |-> joined]
             /\ pc' = "get_arxiv_contents" /\ exc' = "none"
     ELSE pc' = "raised" /\ exc' = "KeyError" /\ UNCHANGED arxiv_stats
  /\ UNCHANGED <<timeline, page_limit, pages, tweets, users, meta, iter, tweets_raw, tweets_dfs>>
  /\ UNCHANGED <<cache, file, blob, now, ret, invoked, first, saved, mainVars, otherVars>>

\* --------------------------------------------------- get_arxiv_contents
MaxIds == 3            \* id_list holds up to MaxIds identifiers
MaxChunkSize == 2      \* chunk_size runs over 1..MaxChunkSize
DefaultChunkSize == 100

IdOf(n) == "2301.0000" \o ToString(n)
IdPool == [n \in 1..MaxIds |-> IdOf(n)]

\* r.entry_id of an arxiv.Result for identifier id: with a version suffix,
\* without one, or in the old identifier scheme
EntryIds(id) ==
  {"http://arxiv.org/abs/" \o id \o "v1",
   "http://arxiv.org/abs/" \o id,
   "http://arxiv.org/abs/math/" \o id}

RECURSIVE ResultLists(_)
\* list(search.results()): at most one result per requested id, in order
ResultLists(car) ==
  IF car = <<>> THEN {<<>>}
  ELSE LET rest == ResultLists(Tail(car))
       IN rest \cup {<<[entry_id |-> e]>> \o r : e \in EntryIds(Head(car)), r \in rest}

\* what one lookup does: it returns its results, or raises
LookupOutcomes(car) ==
  {[car |-> car, ok |-> TRUE, results |-> r] : r \in ResultLists(car)}
    \cup {[car |-> car, ok |-> FALSE, results |-> <<>>]}

\* q[:n] and q[n:]
Take(q, n) == SubSeq(q, 1, IF n < Len(q) THEN n ELSE Len(q))
Drop(q, n) == SubSeq(q, (IF n < Len(q) THEN n ELSE Len(q)) + 1, Len(q))

\* one round of the loop (main.py:208-218); caught: the try/except is there
ContentsChunkWith(caught) ==
  /\ pc = "get_arxiv_contents_loop"
  /\ chunk_i < 1 + (Len(id_list) \div chunk_size)
  /\ LET car == Take(cdr, chunk_size) IN
       /\ cdr' = Drop(cdr, chunk_size)
       /\ IF Len(car) > 0
          THEN \E o \in LookupOutcomes(car) :
                 /\ lookups' = Append(lookups, o)
                 /\ rs' = IF o.ok THEN rs \o o.results ELSE rs
                 /\ IF o.ok \/ caught
                    THEN chunk_i' = chunk_i + 1 /\ UNCHANGED <<pc, exc>>
                    ELSE pc' = "raised" /\ exc' = "Exception" /\ UNCHANGED chunk_i
          ELSE chunk_i' = chunk_i + 1 /\ UNCHANGED <<lookups, rs, pc, exc>>
  /\ last' = [op |-> "get_arxiv_contents"]
  /\ UNCHANGED <<id_list, chunk_size, arxiv_contents, arxiv_df>>
  /\ UNCHANGED <<cache, file, blob, now, ret, invoked, first, saved, mainVars, pipeVars, postVars, delVars>>

\* (mutant) an exception of a lookup is not caught
ContentsChunkUncaught == ContentsChunkWith(FALSE)

ContentsChunk == ContentsChunkWith(TRUE)

\* arxiv_result_to_dict (main.py:181-203): the assert fails when entry_id
\* does not match; m.group(2) + m.group(3) raises TypeError when group 3 is
\* None.  Of the record, the fields the merge uses.
arxiv_result_to_dict(r) ==
  LET m == ArxivMatch(r.entry_id) IN
  IF ~m.ok THEN [ok |-> FALSE, exc |-> "AssertionError"]
  ELSE IF ~m.has_version THEN [ok |-> FALSE, exc |-> "TypeError"]
  ELSE [ok |-> TRUE,
        v |-> [arxiv_id |-> m.id, arxiv_id_v |-> m.id \o m.version, entry_id |-> r.entry_id]]

\* the return statement (main.py:219): the first result that cannot be
\* converted ends the call with its exception
ContentsReturn ==
  /\ pc = "get_arxiv_contents_loop"
  /\ chunk_i = 1 + (Len(id_list) \div chunk_size)
  /\ LET ds == [j \in 1..Len(rs) |-> arxiv_result_to_dict(rs[j])]
         bad == {j \in 1..Len(rs) : ~ds[j].ok}
     IN IF bad = {}
        THEN /\ arxiv_contents' = [j \in 1..Len(rs) |-> ds[j].v]
             /\ pc' = "merge" /\ exc' = "none"
        ELSE /\ pc' = "raised"
             /\ exc' = ds[CHOOSE j \in bad : \A k \in bad : j <= k].exc
             /\ UNCHANGED arxiv_contents
  /\ last' = [op |-> "get_arxiv_contents"]
  /\ UNCHANGED <<id_list, chunk_size, cdr, chunk_i, rs, lookups, arxiv_df>>
  /\ UNCHANGED <<cache, file, blob, now, ret, invoked, first, saved, mainVars, pipeVars, postVars, delVars>>

\* summarize calls get_arxiv_contents(arxiv_ids) (main.py:430, 434)
GetArxivContentsCall ==
  /\ pc = "get_arxiv_contents"
  /\ id_list' = [j \in 1..Len(arxiv_stats.arxiv_stats) |-> arxiv_stats.arxiv_stats[j].arxiv_id]
  /\ chunk_size' = DefaultChunkSize
  /\ cdr' = id_list'
  /\ chunk_i' = 0 /\ rs' = <<>> /\ lookups' = <<>>
  /\ pc' = "get_arxiv_contents_loop"
  /\ last' = [op |-> "get_arxiv_contents"]
  /\ UNCHANGED <<arxiv_contents, arxiv_df>>
  /\ UNCHANGED <<cache, file, blob, now, exc, ret, invoked, first, saved, mainVars, pipeVars, postVars, delVars>>

\* pd.merge(arxiv_stats_df, arxiv_contents_df, on='arxiv_id') (main.py:439):
\* every pair of a stats row and a contents row with its arxiv_id, in the
\* order of the stats rows; json_normalize([]) has no arxiv_id column, and
\* merging on a column a table lacks raises KeyError
\* (mutant) how='left': a reference without metadata keeps its row
merge_contents_left(stats, contents) ==
  ConcatAll([j \in 1..Len(stats) |->
    LET cs == SelectSeq(contents, LAMBDA c : c.arxiv_id = stats[j].arxiv_id)
        row(c) == [arxiv_id |-> stats[j].arxiv_id, like_count |-> stats[j].like_count,
                   retweet_count |-> stats[j].retweet_count, quote_count |-> stats[j].quote_count,
                   reply_count |-> stats[j].reply_count, tweet_count |-> stats[j].tweet_count,
                   arxiv_id_v |-> c.arxiv_id_v, entry_id |-> c.entry_id]
    IN IF Len(cs) = 0 THEN <<row([arxiv_id_v |-> "NaN", entry_id |-> "NaN"])>>
       ELSE [k \in 1..Len(cs) |-> row(cs[k])]], 1)

merge_contents(stats, contents) ==
  ConcatAll([j \in 1..Len(stats) |->
    LET cs == SelectSeq(contents, LAMBDA c : c.arxiv_id = stats[j].arxiv_id)
    IN [k \in 1..Len(cs) |->
          [arxiv_id |-> stats[j].arxiv_id, like_count |-> stats[j].like_count,
           retweet_count |-> stats[j].retweet_count, quote_count |-> stats[j].quote_count,
           reply_count |-> stats[j].reply_count, tweet_count |-> stats[j].tweet_count,
           arxiv_id_v |-> cs[k].arxiv_id_v, entry_id |-> cs[k].entry_id]]], 1)

MergeContents ==
  /\ pc = "merge"
  /\ IF Len(arxiv_contents) = 0
     THEN pc' = "raised" /\ exc' = "KeyError" /\ UNCHANGED arxiv_df
     ELSE /\ arxiv_df' = merge_contents(arxiv_stats.arxiv_stats, arxiv_contents)
          /\ pc' = "returned" /\ exc' = "none"
  /\ last' = [op |-> "merge"]
  /\ UNCHANGED <<id_list, chunk_size, cdr, chunk_i, rs, lookups, arxiv_contents>>
  /\ UNCHANGED <<cache, file, blob, now, ret, invoked, first, saved, mainVars, pipeVars, postVars, delVars>>

\* SpecContents: get_arxiv_contents on any id_list and chunk_size
InitContents ==
  /\ id_list \in SubSeqs(IdPool)
  /\ chunk_size \in 1..MaxChunkSize
  /\ cdr = id_list /\ chunk_i = 0 /\ rs = <<>> /\ lookups = <<>>
  /\ arxiv_contents = None /\ arxiv_df = None
  /\ pc = "get_arxiv_contents_loop" /\ exc = "none" /\ ret = None /\ last = Idle
  /\ cache = Dict(<<>>) /\ file = NoFile /\ blob = NoFile /\ now = 0
  /\ invoked = NoCalls /\ first = NoFirst /\ saved = None
  /\ arxiv_df_top_n = <<>> /\ idx = 0
  /\ PipeIdle /\ PostIdle /\ DelIdle

NextContents ==
  \/ ContentsChunk
  \/ ContentsReturn

\* ------------------------------------------------- Spec: summarize()
Init ==
  /\ timeline \in SubSeqs(TweetPool)
  /\ page_limit \in 1..MaxPages
  /\ pages = <<>>
  /\ tweets = <<>> /\ users = <<>> /\ meta = Meta0 /\ iter = 0
  /\ tweets_raw = None /\ tweets_dfs = None /\ arxiv_stats = None
  /\ pc = "search_recent_tweets" /\ exc = "none" /\ ret = None /\ last = Idle
  /\ cache = Dict(<<>>) /\ file = NoFile /\ blob = NoFile /\ now = 0
  /\ invoked = NoCalls /\ first = NoFirst /\ saved = None
  /\ arxiv_df_top_n = <<>> /\ idx = 0
  /\ OtherIdle

Next ==
  \/ SearchPage
  \/ SearchReturn
  \/ ConvertToDfs
  \/ GetArxivStats
  \/ GetArxivContentsCall
  \/ ContentsChunk
  \/ ContentsReturn
  \/ MergeContents

\* ---------------------------------------- post_to_slack, post_to_twitter
MaxPostRows == 2       \* df holds up to MaxPostRows rows
TwentyThreeHours == 1  \* timedelta(hours=23), in ticks
TopTweets == 5         \* head(5)
MinEngagement == 4     \* (like_count + retweet_count + quote_count + reply_count) > 4

Reverse(q) == [j \in 1..Len(q) |-> q[Len(q) + 1 - j]]

\* arxiv_tweets_df: per arXiv id no tweet, a liked tweet with enough
\* engagement, or a tweet with enough engagement and no like
PostTweet(id, l, r) ==
  [arxiv_id |-> id, id |-> "p" \o ToString(l), like_count |-> l, retweet_count |-> r,
   quote_count |-> 0, reply_count |-> 0]
RECURSIVE TweetTables(_)
TweetTables(n) ==
  IF n = 0 THEN {<<>>}
  ELSE {t \o e : t \in TweetTables(n - 1),
                 e \in {<<>>, <<PostTweet(IdOf(n), 5, 0)>>, <<PostTweet(IdOf(n), 0, 5)>>}}

\* dlc.cache: per arXiv id no entry, or a translation made at some tick
RECURSIVE PostCaches(_)
PostCaches(n) ==
  IF n = 0 THEN {<<>>}
  ELSE {c \o e : c \in PostCaches(n - 1),
                 e \in {<<>>} \cup {<< <<IdOf(n), List(<<List(<<Str("JA:A.")>>), Str(isoformat(ts))>>)>> >> :
                                     ts \in 0..MaxTime}}

\* twenty_three_hours_ago < datetime.fromisoformat(trans_ts)
is_new(trans) == now - TwentyThreeHours < fromisoformat(trans.v[2].v)

\* sort_values(by=[like_count, retweet_count, quote_count, reply_count],
\* ascending=False).head(5) of the rows the query keeps
TweetKey(r) == <<r.like_count, r.retweet_count, r.quote_count, r.reply_count>>
RECURSIVE InsertTweetDesc(_, _, _)
InsertTweetDesc(sorted, r, j) ==
  IF j > Len(sorted) THEN Append(sorted, r)
  ELSE IF TupleGreaterFrom(TweetKey(r), TweetKey(sorted[j]), 1)
       THEN SubSeq(sorted, 1, j - 1) \o <<r>> \o SubSeq(sorted, j, Len(sorted))
       ELSE InsertTweetDesc(sorted, r, j + 1)
RECURSIVE SortTweetsFrom(_, _, _)
SortTweetsFrom(rows, j, sorted) ==
  IF j > Len(rows) THEN sorted
  ELSE SortTweetsFrom(rows, j + 1, InsertTweetDesc(sorted, rows[j], 1))
Engagement(r) == r.like_count + r.retweet_count + r.quote_count + r.reply_count
slack_top_n_tweets(id) ==
  Take(SortTweetsFrom(SelectSeq(post_tweets, LAMBDA r :
         r.arxiv_id = id /\ r.like_count > 0 /\ Engagement(r) > MinEngagement), 1, <<>>), TopTweets)
twitter_top_n_tweets(id) ==
  Take(SortTweetsFrom(SelectSeq(post_tweets, LAMBDA r :
         r.arxiv_id = id /\ Engagement(r) > MinEngagement), 1, <<>>), TopTweets)

PostStep(op) ==
  /\ last' = [op |-> op]
  /\ UNCHANGED <<cache, file, blob, now, ret, invoked, first, saved>>
  /\ UNCHANGED <<post_df, post_tweets, mainVars, pipeVars, contVars, delVars>>

\* post_to_slack: the header message (main.py:238-241)
SlackHeader ==
  /\ pc = "post_to_slack"
  /\ events' = events \o <<"chat_postMessage", "sleep">>
  /\ post_i' = 1 /\ pc' = "slack_row"
  /\ UNCHANGED <<top_n_tweets, prev_tweet_id, exc>>
  /\ PostStep("post_to_slack")

\* one row (main.py:244-280): the paper, its translation if the cache has
\* one, its links; each chat_postMessage is followed by time.sleep(1)
SlackRow ==
  /\ pc = "slack_row" /\ post_i <= Len(post_df)
  /\ events' = events \o <<"chat_postMessage", "sleep">>
                      \o (IF get(post_df[post_i]) # None
                          THEN <<"chat_postMessage", "sleep">> ELSE <<>>)
                      \o <<"chat_postMessage", "sleep">>
  /\ top_n_tweets' = slack_top_n_tweets(post_df[post_i])
  /\ pc' = "post_to_slack_tweets"
  /\ UNCHANGED <<post_i, prev_tweet_id, exc>>
  /\ PostStep("post_to_slack")

\* post_to_slack_tweets, one round (main.py:284-291)
SlackTweet ==
  /\ pc = "post_to_slack_tweets" /\ top_n_tweets # <<>>
  /\ events' = events \o <<"chat_postMessage", "sleep">>
  /\ top_n_tweets' = Tail(top_n_tweets)
  /\ UNCHANGED <<post_i, prev_tweet_id, pc, exc>>
  /\ PostStep("post_to_slack_tweets")

SlackTweetsReturn ==
  /\ pc = "post_to_slack_tweets" /\ top_n_tweets = <<>>
  /\ post_i' = post_i + 1 /\ pc' = "slack_row"
  /\ UNCHANGED <<events, top_n_tweets, prev_tweet_id, exc>>
  /\ PostStep("post_to_slack_tweets")

\* post_to_slack returns and main calls post_to_twitter (main.py:505-508)
SlackReturn ==
  /\ pc = "slack_row" /\ post_i > Len(post_df)
  /\ post_i' = 1 /\ pc' = "post_to_twitter"
  /\ UNCHANGED <<events, top_n_tweets, prev_tweet_id, exc>>
  /\ PostStep("post_to_slack")

\* post_to_twitter, one row up to the call of post_to_twitter_tweets
\* (main.py:360-387): unpacking a missing translation raises TypeError, an
\* old translation is skipped; an exception of create_tweet is caught
TwitterRow ==
  /\ pc = "post_to_twitter" /\ post_i <= Len(post_df)
  /\ LET trans == get(post_df[post_i]) IN
     IF trans = None
     THEN /\ pc' = "raised" /\ exc' = "TypeError"
          /\ UNCHANGED <<events, post_i, top_n_tweets, prev_tweet_id>>
     ELSE IF ~is_new(trans)
     THEN /\ post_i' = post_i + 1
          /\ UNCHANGED <<events, top_n_tweets, prev_tweet_id, pc, exc>>
     ELSE /\ events' = events \o <<"create_tweet", "sleep">>
          /\ \E ok \in BOOLEAN :
               prev_tweet_id' = IF ok THEN Str("n" \o ToString(Len(events))) ELSE None
          /\ top_n_tweets' = twitter_top_n_tweets(post_df[post_i])
          /\ pc' = "post_to_twitter_tweets"
          /\ UNCHANGED <<post_i, exc>>
  /\ PostStep("post_to_twitter")

\* post_to_twitter_tweets, one round (main.py:403-414)
TwitterTweet ==
  /\ pc = "post_to_twitter_tweets" /\ top_n_tweets # <<>>
  /\ events' = events \o <<"create_tweet", "sleep">>
  /\ \E ok \in BOOLEAN :
       prev_tweet_id' = IF ok THEN Str("n" \o ToString(Len(events))) ELSE prev_tweet_id
  /\ top_n_tweets' = Tail(top_n_tweets)
  /\ UNCHANGED <<post_i, pc, exc>>
  /\ PostStep("post_to_twitter_tweets")

\* post_to_twitter_tweets returns; the rest of the row (main.py:388-399):
\* the translation is tweeted as a reply and the loop goes on
TwitterTweetsReturn ==
  /\ pc = "post_to_twitter_tweets" /\ top_n_tweets = <<>>
  /\ events' = Append(events, "create_tweet")
  /\ post_i' = post_i + 1 /\ pc' = "post_to_twitter"
  /\ UNCHANGED <<top_n_tweets, prev_tweet_id, exc>>
  /\ PostStep("post_to_twitter")

TwitterReturn ==
  /\ pc = "post_to_twitter" /\ post_i > Len(post_df)
  /\ pc' = "done"
  /\ UNCHANGED <<events, post_i, top_n_tweets, prev_tweet_id, exc>>
  /\ PostStep("post_to_twitter")

InitPost ==
  /\ post_df \in {Reverse(df) : df \in SubSeqs([n \in 1..MaxPostRows |-> IdOf(n)])}
  /\ post_tweets \in TweetTables(MaxPostRows)
  /\ cache \in {Dict(c) : c \in PostCaches(MaxPostRows)}
  /\ now = MaxTime
  /\ events = <<>> /\ post_i = 0 /\ top_n_tweets = <<>> /\ prev_tweet_id = None
  /\ pc = "post_to_slack" /\ exc = "none" /\ ret = None /\ last = Idle
  /\ file = NoFile /\ blob = NoFile
  /\ invoked = NoCalls /\ first = NoFirst /\ saved = None
  /\ arxiv_df_top_n = <<>> /\ idx = 0
  /\ PipeIdle /\ ContIdle /\ DelIdle

NextPost ==
  \/ SlackHeader
  \/ SlackRow
  \/ SlackTweet
  \/ SlackTweetsReturn
  \/ SlackReturn
  \/ TwitterRow
  \/ TwitterTweet
  \/ TwitterTweetsReturn
  \/ TwitterReturn

\* ---------------------------------------------------- delete_all_tweets
MaxAccount == 3        \* the account holds up to MaxAccount tweets
MaxFailures == 1       \* delete_tweet calls that do not report 'deleted'
PageMax == 100         \* get_users_tweets: max_results=100
DelMaxResults == 50    \* get_oldest_tweet_ids(..., max_results=50)

\* the account's tweets, newest first
AccountPool == [n \in 1..MaxAccount |-> "d" \o ToString(MaxAccount + 1 - n)]

\* q[-n:]
LastN(q, n) == SubSeq(q, (IF Len(q) > n THEN Len(q) - n ELSE 0) + 1, Len(q))

DelStep(op) ==
  /\ last' = [op |-> op]
  /\ UNCHANGED <<cache, file, blob, now, invoked, first, saved>>
  /\ UNCHANGED <<account0, mainVars, pipeVars, contVars, postVars>>

\* get_oldest_tweet_ids, one response of the Paginator (lines 13-18).  A
\* response without tweets has data None (search_recent_tweets guards it
\* with `if response.data`, main.py:118); iterating it raises TypeError,
\* which leaves delete_all_tweets through its try/finally.
DelPage ==
  /\ pc = "get_oldest_tweet_ids"
  /\ served_pages = 0 \/ unserved # <<>>
  /\ served_pages' = served_pages + 1
  /\ IF unserved = <<>>
     THEN /\ pc' = "raised" /\ exc' = "TypeError"
          /\ UNCHANGED <<unserved, oldest_tweets, total_count>>
     ELSE /\ \E k \in 1..(IF Len(unserved) < PageMax THEN Len(unserved) ELSE PageMax) :
               /\ total_count' = total_count + k
               /\ oldest_tweets' = LastN(oldest_tweets \o Take(unserved, k), DelMaxResults)
               /\ unserved' = Drop(unserved, k)
          /\ UNCHANGED <<pc, exc>>
  /\ UNCHANGED <<account, tweet_ids, delete_count, deleted, ret>>
  /\ DelStep("get_oldest_tweet_ids")

\* get_oldest_tweet_ids returns the reversed list; delete_all_tweets breaks
\* out of its loop and returns delete_count when the list is empty
DelOldestReturn ==
  /\ pc = "get_oldest_tweet_ids"
  /\ served_pages > 0 /\ unserved = <<>>
  /\ tweet_ids' = Reverse(oldest_tweets)
  /\ IF Len(oldest_tweets) = 0
     THEN pc' = "returned" /\ ret' = delete_count
     ELSE pc' = "delete_loop" /\ UNCHANGED ret
  /\ UNCHANGED <<account, unserved, served_pages, oldest_tweets, total_count,
                 delete_count, deleted, exc>>
  /\ DelStep("get_oldest_tweet_ids")

\* one delete_tweet call (delete_all_tweets.py:38-45)
DelTweet ==
  /\ pc = "delete_loop" /\ tweet_ids # <<>>
  /\ \E ok \in {TRUE} \cup
               (IF Cardinality({j \in 1..Len(deleted) : ~deleted[j].ok}) < MaxFailures
                THEN {FALSE} ELSE {}) :
       /\ deleted' = Append(deleted, [id |-> Head(tweet_ids), ok |-> ok])
       /\ account' = IF ok THEN SelectSeq(account, LAMBDA t : t # Head(tweet_ids)) ELSE account
       /\ delete_count' = IF ok THEN delete_count + 1 ELSE delete_count
  /\ tweet_ids' = Tail(tweet_ids)
  /\ UNCHANGED <<unserved, served_pages, oldest_tweets, total_count, pc, exc, ret>>
  /\ DelStep("delete_tweet")

\* the for loop is over: the next round of `while True`
DelNextRound ==
  /\ pc = "delete_loop" /\ tweet_ids = <<>>
  /\ pc' = "get_oldest_tweet_ids"
  /\ unserved' = account /\ served_pages' = 0
  /\ oldest_tweets' = <<>> /\ total_count' = 0
  /\ UNCHANGED <<account, tweet_ids, delete_count, deleted, exc, ret>>
  /\ DelStep("delete_all_tweets")

InitDelete ==
  /\ account \in SubSeqs(AccountPool)
  /\ account0 = account /\ unserved = account
  /\ served_pages = 0 /\ oldest_tweets = <<>> /\ total_count = 0
  /\ tweet_ids = <<>> /\ delete_count = 0 /\ deleted = <<>>
  /\ pc = "get_oldest_tweet_ids" /\ exc = "none" /\ ret = None /\ last = Idle
  /\ cache = Dict(<<>>) /\ file = NoFile /\ blob = NoFile /\ now = 0
  /\ invoked = NoCalls /\ first = NoFirst /\ saved = None
  /\ arxiv_df_top_n = <<>> /\ idx = 0
  /\ PipeIdle /\ ContIdle /\ PostIdle

NextDelete ==
  \/ DelPage
  \/ DelOldestReturn
  \/ DelTweet
  \/ DelNextRound

vars == <<cache, file, blob, now, pc, exc, ret, last, invoked, first, saved,
          arxiv_df_top_n, idx, timeline, page_limit, pages, tweets, users, meta, iter,
          tweets_raw, tweets_dfs, arxiv_stats,
          id_list, chunk_size, cdr, chunk_i, rs, lookups, arxiv_contents, arxiv_df,
          events, post_df, post_tweets, post_i, top_n_tweets, prev_tweet_id,
          account, account0, unserved, served_pages, oldest_tweets, total_count,
          tweet_ids, delete_count, deleted>>
SpecCache == InitCache /\ [][NextCache]_vars
SpecMain == InitMain /\ [][NextMain]_vars
Spec == Init /\ [][Next]_vars
SpecContents == InitContents /\ [][NextContents]_vars
SpecPost == InitPost /\ [][NextPost]_vars
SpecDelete == InitDelete /\ [][NextDelete]_vars

\* ------------------------------------------------------------ claims
\* C1: between resets of the mapping (clear_cache, load, a new object) the
\* translator is invoked at most once per key, and every translate_text call
\* after the first with a key returns the entry the first call returned and
\* stored, whatever text and target language the later call passes.
TranslatorAtMostOncePerKey ==
  /\ \A k \in Keys : invoked[k] <= 1
  /\ (last.op = "translate_text" /\ last.again) =>
       /\ exc = "none"
       /\ ret = first[last.key]
       /\ get(last.key) = first[last.key]

\* C1 witness: a later call asked for "DE" and got the "JA" list entry that
\* the first call stored; the translator ran once for that key
SecondCallReturnsFirstEntry ==
  /\ last.op = "translate_text" /\ last.again /\ last.lang = "DE"
  /\ invoked[last.key] = 1
  /\ ret = first[last.key]
  /\ ret.v[1].t = "list"

\* C2 (as claimed): after clear_cache with an age threshold, exactly the
\* entries older than now - threshold are gone and every newer entry is
\* still there with its value.
ClearRemovesExactlyOlder ==
  last.op = "clear_cache_expire" =>
    \A k \in DictKeys(last.before) :
      LET e == DictGet(last.before, k)
          ts == fromisoformat(e.v[2].v)
      IN /\ (ts < last.at - last.expire => get(k) = None)
         /\ (ts > last.at - last.expire => get(k) = e)

\* C3: load after save gives a mapping with the same keys and, per key, the
\* same translated value (list or single string, same order) and the same
\* timestamp string as the mapping that was saved.
SaveLoadRoundTrip ==
  (last.op = "load" /\ exc = "none" /\ saved # None) =>
    /\ cache.t = "dict"
    /\ DictKeys(cache) = DictKeys(saved)
    /\ \A k \in DictKeys(saved) :
         LET a == DictGet(saved, k)
             b == get(k)
         IN /\ b.t = "list" /\ Len(b.v) = 2
            /\ b.v[1] = a.v[1]
            /\ b.v[2] = a.v[2]

\* C3 witness: a fresh (empty) object loaded a saved mapping that holds a
\* list-valued and a string-valued translation
LoadedBothShapes ==
  /\ last.op = "load" /\ exc = "none" /\ saved # None
  /\ last.before = Dict(<<>>)
  /\ \E j, k \in DictKeys(cache) : get(j).v[1].t = "list" /\ get(k).v[1].t = "str"

\* C4: when the persisted cache is missing or corrupt, load_from_gcs raises,
\* main is not ended by it, starts from an empty cache and translates the
\* top-N rows: the cache holds exactly the rows translated so far.
CacheUnavailable == blob = NoFile \/ ~json_loads(blob.data).ok
LoadFailureNotFatal ==
  CacheUnavailable =>
    /\ last.op = "load_from_gcs" =>
         /\ exc \in {"NotFound", "OSError"}
         /\ pc \in {"translate_arxiv", "clear_cache"} /\ idx = 1
         /\ cache = Dict(<<>>)
    /\ (pc \in {"translate_arxiv", "clear_cache"}) =>
         DictKeys(cache) = {arxiv_df_top_n[j].arxiv_id : j \in 1..(idx - 1)}

\* C4 witness: the stored object was corrupt and main translated two rows
CorruptCacheThenTranslated ==
  /\ CacheUnavailable /\ blob # NoFile
  /\ pc = "clear_cache"
  /\ Len(arxiv_df_top_n) = 2 /\ Len(cache.v) = 2

\* ---------------------------------------------------- claims on Spec
\* the pages consumed so far all carry result_count
AllCounted == \A j \in 1..Len(pages) : "result_count" \in DOMAIN pages[j].meta
PageCounts == [j \in 1..Len(pages) |-> pages[j].meta["result_count"]]

\* C5: for any sequence of N pages consumed by search_recent_tweets, the
\* merged result_count is the sum of the N pages' result_count, while the
\* loop runs and in the returned value.
ResultCountIsSumOfPages ==
  AllCounted =>
    /\ meta.result_count = Sum(PageCounts, 1)
    /\ tweets_raw # None => tweets_raw.meta.result_count = Sum(PageCounts, 1)

\* C5 witness: the call returned after two pages that both carried tweets
ReturnedTwoCountedPages ==
  /\ tweets_raw # None /\ Len(pages) = 2
  /\ pages[1].meta["result_count"] > 0 /\ pages[2].meta["result_count"] > 0
  /\ tweets_raw.meta.result_count = pages[1].meta["result_count"] + pages[2].meta["result_count"]

\* C6 as stated: in the returned value newest_id is page 1's newest_id and
\* oldest_id is page N's oldest_id (None where the page's meta has none).
NewestOfFirstOldestOfLast ==
  tweets_raw # None =>
    LET m1 == pages[1].meta
        mN == pages[Len(pages)].meta
    IN /\ tweets_raw.meta.newest_id = (IF "newest_id" \in DOMAIN m1 THEN m1["newest_id"] ELSE None)
       /\ tweets_raw.meta.oldest_id = (IF "oldest_id" \in DOMAIN mN THEN mN["oldest_id"] ELSE None)

\* C6: in the returned value newest_id is the newest_id of the first page
\* whose meta carries one and oldest_id is the oldest_id of the last page
\* whose meta carries one; each is None when no page carries it.
NewestOfFirstCarrierOldestOfLastCarrier ==
  tweets_raw # None =>
    LET cn == {j \in 1..Len(pages) : "newest_id" \in DOMAIN pages[j].meta}
        co == {j \in 1..Len(pages) : "oldest_id" \in DOMAIN pages[j].meta}
    IN /\ tweets_raw.meta.newest_id =
            (IF cn = {} THEN None
             ELSE pages[CHOOSE j \in cn : \A k \in cn : j <= k].meta["newest_id"])
       /\ tweets_raw.meta.oldest_id =
            (IF co = {} THEN None
             ELSE pages[CHOOSE j \in co : \A k \in co : j >= k].meta["oldest_id"])

\* C6 witness: two pages, both ids on the first and none on the (empty) last;
\* the returned oldest_id is the first page's
ReturnedAfterEmptyLastPage ==
  /\ tweets_raw # None /\ Len(pages) = 2
  /\ "oldest_id" \in DOMAIN pages[1].meta
  /\ "oldest_id" \notin DOMAIN pages[2].meta
  /\ tweets_raw.meta.oldest_id = pages[1].meta["oldest_id"]
  /\ tweets_raw.meta.newest_id = pages[1].meta["newest_id"]

\* C7 as stated: the returned users list holds exactly one record per author
\* id seen on any page, in the order of the ids' first appearance.
OneUserRecordPerId ==
  tweets_raw # None =>
    LET us == tweets_raw.includes.users
        seen == ConcatAll([j \in 1..Len(pages) |-> pages[j].users], 1)
        FirstAt(a) == CHOOSE j \in 1..Len(seen) :
                        seen[j].id = a /\ \A k \in 1..(j - 1) : seen[k].id # a
    IN /\ {u.id : u \in Range(us)} = {u.id : u \in Range(seen)}
       /\ \A j, k \in 1..Len(us) : us[j].id = us[k].id => j = k
       /\ \A j, k \in 1..Len(us) : j < k => FirstAt(us[j].id) < FirstAt(us[k].id)

\* C8 as stated: after a page without records or without result_count the
\* call goes on: it has not raised, and the tweets and the count it holds
\* are those of the well-formed pages.
EmptyOrMalformedPageSkipped ==
  LET wf == SelectSeq(pages, LAMBDA r : "result_count" \in DOMAIN r.meta /\ Len(r.data) > 0)
  IN (\E j \in 1..Len(pages) : "result_count" \notin DOMAIN pages[j].meta \/ Len(pages[j].data) = 0)
       => /\ ~(pc = "raised" /\ last.op = "search_recent_tweets")
          /\ tweets = ConcatAll([j \in 1..Len(wf) |-> wf[j].data], 1)
          /\ meta.result_count = Sum([j \in 1..Len(wf) |-> wf[j].meta["result_count"]], 1)

\* C9 as stated: when get_arxiv_stats has returned, the (tweet id, arXiv id)
\* pairs it extracted are exactly those of the urls rows whose effective URL
\* (the unwound_url when present and non-null, else the expanded_url)
\* matches ARXIV_URL_PATTERN.
ReferencesFromEffectiveUrl ==
  arxiv_stats # None =>
    LET rows == tweets_dfs.urls.rows
        eff(row) == IF "unwound_url" \in DOMAIN row /\ row["unwound_url"] # NaN
                    THEN row["unwound_url"].v ELSE row["expanded_url"].v
    IN {<<r.id, r.arxiv_id>> : r \in Range(arxiv_stats.arxiv_ids)}
         = {<<row["id"].v, ArxivMatch(eff(row)).id>> :
              row \in {x \in Range(rows) : ArxivMatch(eff(x)).ok}}

\* C10 as stated: for every row r of arxiv_stats, tweet_count is at most the
\* number of distinct tweets with a URL item resolving to r, and each summed
\* counter is at most the sum of that counter over those tweets.
NoDoubleCounting ==
  arxiv_stats # None =>
    \A j \in 1..Len(arxiv_stats.arxiv_stats) :
      LET r == arxiv_stats.arxiv_stats[j]
          Resolves(u) == ArxivMatch(u).ok /\ ArxivMatch(u).id = r.arxiv_id
          ts == SelectSeq(tweets_raw.data, LAMBDA t :
                  \E k \in 1..Len(t.urls) : \E f \in DOMAIN t.urls[k] : Resolves(t.urls[k][f]))
      IN /\ r.tweet_count <= Len(ts)
         /\ r.like_count <= Sum([k \in 1..Len(ts) |-> ts[k].like_count], 1)
         /\ r.retweet_count <= Sum([k \in 1..Len(ts) |-> ts[k].retweet_count], 1)
         /\ r.quote_count <= Sum([k \in 1..Len(ts) |-> ts[k].quote_count], 1)
         /\ r.reply_count <= Sum([k \in 1..Len(ts) |-> ts[k].reply_count], 1)

\* C11: the rows get_arxiv_stats returns are in descending lexicographic
\* order of (like_count, retweet_count, quote_count, reply_count,
\* tweet_count): no row comes after a row with a smaller tuple.
RankingIsLexicographic ==
  arxiv_stats # None =>
    LET rows == arxiv_stats.arxiv_stats
        key(r) == <<r.like_count, r.retweet_count, r.quote_count, r.reply_count, r.tweet_count>>
        LexGreater(a, b) == \E p \in 1..5 : a[p] > b[p] /\ \A q \in 1..(p - 1) : a[q] = b[q]
    IN \A j, k \in 1..Len(rows) : j < k => ~LexGreater(key(rows[k]), key(rows[j]))

\* C11 witness: two references with equal like_count; the one with more
\* retweets comes first although its arxiv_id is the greater one
EqualLikesOrderedByRetweets ==
  /\ arxiv_stats # None
  /\ \E j, k \in 1..Len(arxiv_stats.arxiv_stats) :
       LET a == arxiv_stats.arxiv_stats[j]
           b == arxiv_stats.arxiv_stats[k]
       IN /\ j < k /\ a.like_count = b.like_count /\ a.retweet_count > b.retweet_count
          /\ StrLess(b.arxiv_id, a.arxiv_id)

\* ------------------------------------------- claims on SpecContents
\* C12: the lookups issued so far took consecutive chunks of id_list, each
\* of chunk_size identifiers except a shorter, non-empty last one, one
\* lookup per chunk; rs is the concatenation, in chunk order, of the results
\* of the lookups that succeeded; and once the loop is over every identifier
\* was in a chunk, whatever lookups raised.
ChunksLookedUpOnce ==
  /\ ConcatAll([j \in 1..Len(lookups) |-> lookups[j].car], 1) \o cdr = id_list
  /\ \A j \in 1..Len(lookups) :
       /\ Len(lookups[j].car) >= 1 /\ Len(lookups[j].car) <= chunk_size
       /\ (j < Len(lookups) \/ cdr # <<>>) => Len(lookups[j].car) = chunk_size
  /\ rs = ConcatAll([j \in 1..Len(lookups) |->
                       IF lookups[j].ok THEN lookups[j].results ELSE <<>>], 1)
  /\ pc # "get_arxiv_contents_loop" => cdr = <<>>

\* C12 witness: the call returned after two chunks, the last one shorter;
\* the first lookup raised and the second one's results were kept
FirstChunkFailedSecondKept ==
  /\ pc = "merge" /\ Len(lookups) = 2
  /\ ~lookups[1].ok /\ lookups[2].ok
  /\ Len(lookups[2].car) < chunk_size
  /\ Len(arxiv_contents) > 0 /\ rs = lookups[2].results

\* C13: the table summarize returns holds, in the order of the ranking,
\* exactly the rows of arxiv_stats whose arxiv_id has a record in
\* arxiv_contents, each once and with its counters.
RankedTableIsStatsWithMetadata ==
  pc = "returned" =>
    LET stats == arxiv_stats.arxiv_stats
        have == {c.arxiv_id : c \in Range(arxiv_contents)}
        expected == SelectSeq(stats, LAMBDA r : r.arxiv_id \in have)
    IN /\ Len(arxiv_df) = Len(expected)
       /\ \A j \in 1..Len(arxiv_df) :
            /\ arxiv_df[j].arxiv_id = expected[j].arxiv_id
            /\ arxiv_df[j].like_count = expected[j].like_count
            /\ arxiv_df[j].tweet_count = expected[j].tweet_count
            /\ \E c \in Range(arxiv_contents) :
                 c.arxiv_id = arxiv_df[j].arxiv_id /\ c.entry_id = arxiv_df[j].entry_id

\* C13 witness: of two ranked references only the second has metadata; it is
\* the returned table's only row
TopReferenceWithoutMetadataDropped ==
  /\ pc = "returned"
  /\ Len(arxiv_stats.arxiv_stats) = 2 /\ Len(arxiv_df) = 1
  /\ arxiv_df[1].arxiv_id = arxiv_stats.arxiv_stats[2].arxiv_id

\* C14 as stated: get_arxiv_contents ends with an exception exactly when a
\* fetched entry_id does not match ARXIV_URL_PATTERN; otherwise it returns
\* one record per fetched item, with the version-stripped id as arxiv_id.
FailsExactlyOnNonMatchingEntry ==
  (last.op = "get_arxiv_contents" /\ pc \in {"merge", "raised"}) =>
    /\ pc = "raised" <=> \E j \in 1..Len(rs) : ~ArxivMatch(rs[j].entry_id).ok
    /\ pc = "merge" =>
         /\ Len(arxiv_contents) = Len(rs)
         /\ \A j \in 1..Len(rs) : arxiv_contents[j].arxiv_id = ArxivMatch(rs[j].entry_id).id

\* ------------------------------------------------ claims on SpecMain
\* C15 as stated: once translate_arxiv has completed, main's eviction call
\* returns without an exception and the run goes on to save the cache.
EvictAndSaveFollowTranslate ==
  last.op = "clear_cache_expire" => (exc = "none" /\ pc = "save_to_gcs")

\* ------------------------------------------------ claims on SpecPost
\* C16 as stated: between any two successive message-posting calls
\* (chat_postMessage, create_tweet) at least one sleep is executed.
SleepBetweenPosts ==
  \A j \in 1..(Len(events) - 1) :
    ~(events[j] \in {"chat_postMessage", "create_tweet"}
      /\ events[j + 1] \in {"chat_postMessage", "create_tweet"})

\* ---------------------------------------------- claims on SpecDelete
\* C17 as stated: while every delete_tweet call has reported the tweet as
\* deleted, delete_all_tweets is not ended by an exception, the calls so far
\* took the account's tweets oldest first, and when it returns the account
\* is empty and the count returned is the number of tweets it had.
DeleteAllReturnsCount ==
  (\A j \in 1..Len(deleted) : deleted[j].ok) =>
    /\ pc # "raised"
    /\ \A j \in 1..Len(deleted) : deleted[j].id = account0[Len(account0) + 1 - j]
    /\ pc = "returned" => (account = <<>> /\ ret = Len(account0))

====
